---- MODULE Spec2Model ----
(***************************************************************************)
(* Verification model of range-v3's detail::advance_bounded                *)
(* (include/range/v3/detail/advance_bounded.hpp) and of zip_range_view's   *)
(* composite iterator (include/range/v3/view/zip.hpp).                     *)
(*                                                                         *)
(* An iterator into a sequence is modelled by its offset from the start of *)
(* that sequence: begin is offset 0, end is the sequence's length.         *)
(* Stepping or jumping an iterator outside [begin, end] is undefined       *)
(* behaviour; the model flags it and lets the outcome be arbitrary.        *)
(***************************************************************************)
EXTENDS Integers, Sequences, FiniteSets

\* ------------------------------------------------------------------------
\* Bounds
\* ------------------------------------------------------------------------
\* length of the sequence advance_bounded walks over
SeqLen == 4
\* largest magnitude of the count n handed to advance_bounded
MaxCount == 3
\* largest number of ranges zipped together
MaxRngs == 3
\* largest length of a zipped range
MaxLen == 5

VARIABLES
    \* ---- advance_bounded ----
    cat,          \* iterator_category_t<Iter> of the iterator
    it,           \* Iter & it   (in/out argument)
    n,            \* Diff n      of the last call
    bound,        \* Iter bound  of the last call
    it0,          \* value of it when the last call was made
    ret,          \* value returned by the last call
    advAsserted,  \* RANGES_ASSERT(false) was hit by the last call
    advUb,        \* the last call stepped outside the sequence
    advPc,        \* "idle" | "returned" | "aborted"
    \* ---- zip_range_view ----
    rngs_,        \* zip_range_view::rngs_
    its_,         \* basic_iterator::its_
    origin,       \* factory the iterator came from: "begin" | "end"
    pc,           \* position of the caller
    op,           \* last basic_iterator operation the caller invoked
    steps,        \* net number of steps the iterator was moved forward
    out,          \* tuples obtained by the traversal loop, in order
    cur,          \* the tuple returned, when op is "dereference"
    dist,         \* the distance returned, when op is "distance_to"
    distTo,       \* its argument then: "begin" for begin(), "end" for end()
    asserted,     \* a RANGES_ASSERT of the iterator fired
    ub            \* a component iterator left its sequence

advVars == <<cat, it, n, bound, it0, ret, advAsserted, advUb, advPc>>
zipVars ==
    <<rngs_, its_, origin, pc, op, steps, out, cur, dist, distTo, asserted, ub>>
vars == <<advVars, zipVars>>

\* ========================================================================
\* advance_bounded
\* ========================================================================
Categories == {"input", "forward", "bidirectional", "random_access"}
Positions == 0 .. SeqLen
Counts == (0 - MaxCount) .. MaxCount

\* result of one of the fwd/back overloads
Result(i, r, a, u) == [it |-> i, ret |-> r, asserted |-> a, ub |-> u]

RECURSIVE fwd_input(_, _, _)
fwd_input(i, k, end) ==
    IF k > 0 /\ i # end
    THEN IF i = SeqLen
         THEN Result(i, k, FALSE, TRUE)
         ELSE fwd_input(i + 1, k - 1, end)
    ELSE Result(i, k, FALSE, FALSE)

\* the arithmetic path without the clip at end
fwd_random_access_noclip(i, k, end) ==
    Result(i + k, 0, FALSE, (i + k) \notin Positions)

fwd_random_access(i, k, end) ==
    LET room == end - i
    IN  IF room < k
        THEN Result(end, k - room, FALSE, FALSE)
        ELSE Result(i + k, 0, FALSE, (i + k) \notin Positions)

back_input(i, k, begin) ==
    Result(i, k, TRUE, FALSE)

\* the loop without its  it != begin  test
back_bidirectional_unbounded(i, k, begin) ==
    IF k < 0
    THEN Result(i + k, 0, FALSE, (i + k) \notin Positions)
    ELSE Result(i, k, FALSE, FALSE)

RECURSIVE back_bidirectional(_, _, _)
back_bidirectional(i, k, begin) ==
    IF k < 0 /\ i # begin
    THEN IF i = 0
         THEN Result(i, k, FALSE, TRUE)
         ELSE back_bidirectional(i - 1, k + 1, begin)
    ELSE Result(i, k, FALSE, FALSE)

back_random_access(i, k, begin) ==
    LET room == 0 - (i - begin)
    IN  IF k < room
        THEN Result(begin, k - room, FALSE, FALSE)
        ELSE Result(i + k, 0, FALSE, (i + k) \notin Positions)

\* tag dispatch: the most derived overload the tag converts to
fwd(i, k, end, tag) ==
    IF tag = "random_access"
    THEN fwd_random_access(i, k, end)
    ELSE fwd_input(i, k, end)

back(i, k, begin, tag) ==
    CASE tag = "random_access" -> back_random_access(i, k, begin)
      [] tag = "bidirectional" -> back_bidirectional(i, k, begin)
      [] OTHER                 -> back_input(i, k, begin)

\* advance_bounded_::operator()
call_operator(i, k, bnd, tag) ==
    IF 0 < k
    THEN fwd(i, k, bnd, tag)
    ELSE back(i, k, bnd, tag)

AdvInit ==
    /\ cat \in Categories
    /\ it \in Positions
    /\ n = 0
    /\ bound = it
    /\ it0 = it
    /\ ret = 0
    /\ advAsserted = FALSE
    /\ advUb = FALSE
    /\ advPc = "idle"

\* one call  advance_bounded(it, k, bnd)
advance_bounded ==
    \E k \in Counts, bnd \in Positions :
        LET r == call_operator(it, k, bnd, cat)
        IN  /\ advPc \in {"idle", "returned"}
            /\ n' = k
            /\ bound' = bnd
            /\ it0' = it
            /\ advAsserted' = r.asserted
            /\ advUb' = r.ub
            /\ advPc' = IF r.asserted \/ r.ub THEN "aborted" ELSE "returned"
            /\ IF r.ub
               THEN it' \in Positions /\ ret' \in Counts
               ELSE it' = r.it /\ ret' = r.ret
            /\ UNCHANGED <<cat, zipVars>>

ZipIdle ==
    /\ rngs_ = << >>
    /\ its_ = << >>
    /\ origin = "none"
    /\ pc = "off"
    /\ op = "none"
    /\ steps = 0
    /\ out = << >>
    /\ cur = << >>
    /\ dist = 0
    /\ distTo = "none"
    /\ asserted = FALSE
    /\ ub = FALSE

InitAdvance == AdvInit /\ ZipIdle
NextAdvance == advance_bounded
SpecAdvance == InitAdvance /\ [][NextAdvance]_vars

\* ------------------------------------------------------------------------
\* Properties of advance_bounded
\* ------------------------------------------------------------------------
AdvCalled == advPc # "idle"

\* the tier has an overload that moves in the direction of k
Supports(tag, k) == k > 0 \/ tag \in {"bidirectional", "random_access"}

\* bnd lies in the direction of travel from i
InDirection(i, k, bnd) == (k > 0 /\ bnd >= i) \/ (k < 0 /\ bnd <= i)

Abs(x) == IF x < 0 THEN 0 - x ELSE x

\* the one-step-at-a-time loop for the same arguments
ReferenceLoop(i, k, bnd) ==
    IF k > 0 THEN fwd_input(i, k, bnd) ELSE back_bidirectional(i, k, bnd)

\* C1: advance_bounded(p, 0, bound) returns 0, leaves p where it was and
\* raises no assertion, for every tier and every bound.
C1_ZeroCase ==
    (AdvCalled /\ n = 0) =>
        (ret = 0 /\ it = it0 /\ ~advAsserted /\ ~advUb)

\* C2: with bound in the direction of travel, the steps taken equal n - r,
\* r has the sign of n (or is 0) with |r| <= |n|, and p ends between its
\* original position and bound, never past bound.
C2_Conservation ==
    (AdvCalled /\ Supports(cat, n) /\ InDirection(it0, n, bound)) =>
        /\ ~advAsserted /\ ~advUb
        /\ it - it0 = n - ret
        /\ (n > 0 => (0 <= ret /\ ret <= n))
        /\ (n < 0 => (n <= ret /\ ret <= 0))
        /\ (n > 0 => (it0 <= it /\ it <= bound))
        /\ (n < 0 => (bound <= it /\ it <= it0))

\* a backward random-access call that was clipped at bound
C2_Witness ==
    /\ advPc = "returned" /\ cat = "random_access"
    /\ n < 0 /\ bound < it0 /\ it = bound /\ ret < 0 /\ ret # n

\* C3: for random-access iterators the arithmetic path gives the same final
\* position and remainder as the stepping loop, for every n and every bound.
C3_ArithmeticEqualsLoop ==
    (/\ AdvCalled /\ cat = "random_access" /\ ~advUb
     /\ ~ReferenceLoop(it0, n, bound).ub) =>
        /\ it = ReferenceLoop(it0, n, bound).it
        /\ ret = ReferenceLoop(it0, n, bound).ret

\* C8: with p = bound and n # 0 the call returns n and leaves p at bound,
\* without any error, on every tier that supports the direction of n.
C8_AtBound ==
    (AdvCalled /\ it0 = bound /\ n # 0 /\ Supports(cat, n)) =>
        (ret = n /\ it = bound /\ ~advAsserted /\ ~advUb)

\* a backward stepping call made with p = bound
C8_Witness ==
    /\ advPc = "returned" /\ it0 = bound /\ n < 0 /\ ret = n
    /\ cat = "bidirectional" /\ it = bound /\ bound > 0

\* ========================================================================
\* zip_range_view
\* ========================================================================
\* (std::numeric_limits<difference_type>::max)() and ::min)()
DiffMax == 2147483647
DiffMin == (0 - DiffMax) - 1

\* the k-th element of the i-th zipped range; all elements are distinct
Elem(i, k) == <<i, k>>
MkRange(i, len) == [k \in 1 .. len |-> Elem(i, k)]
Lengths == UNION {[1 .. N -> 0 .. MaxLen] : N \in 1 .. MaxRngs}
Junk == <<0, 0>>

\* ranges::begin / ranges::end of one range, as offsets
range_begin(r) == 0
range_end(r) == Len(r)

equal_to(t, u) == t = u
inc(t) == t + 1
dec(t) == t - 1
distance_to_swapped(t, u) == t - u
distance_to_(t, u) == u - t
min_(t, u) == IF t < u THEN t ELSE u
max_(t, u) == IF t < u THEN u ELSE t
or_(a, b) == a \/ b
and_(a, b) == a /\ b

\* the function objects handed to the tuple algorithms are values; invoke1
\* and invoke2 are their call operators
invoke1(f, t) ==
    CASE f = "begin" -> range_begin(t)
      [] f = "end"   -> range_end(t)
      [] f = "inc"   -> inc(t)
      [] f = "dec"   -> dec(t)

\* std::bind(detail::advance, _1, n) applied to one component
advance_(t, d) == t + d

invoke2(f, t, u) ==
    CASE f = "equal_to"    -> equal_to(t, u)
      [] f = "distance_to" -> distance_to_(t, u)
      [] f = "min_"        -> min_(t, u)
      [] f = "max_"        -> max_(t, u)
      [] f = "or"          -> or_(t, u)
      [] f = "and"         -> and_(t, u)

tuple_transform(t, f) == [i \in DOMAIN t |-> invoke1(f, t[i])]
tuple_transform2(t, u, f) == [i \in DOMAIN t |-> invoke2(f, t[i], u[i])]

RECURSIVE foldl_from(_, _, _, _)
foldl_from(t, acc, f, i) ==
    IF i > Len(t) THEN acc ELSE foldl_from(t, invoke2(f, acc, t[i]), f, i + 1)
tuple_foldl(t, init, f) == foldl_from(t, init, f, 1)

\* basic_iterator(rng, begin_tag) and basic_iterator(rng, end_tag)
BeginIts(rngs) == tuple_transform(rngs, "begin")
EndIts(rngs) == tuple_transform(rngs, "end")

equal_all(a, b) ==
    tuple_foldl(tuple_transform2(a, b, "equal_to"), TRUE, "and")

equal(a, b) ==
    tuple_foldl(tuple_transform2(a, b, "equal_to"), FALSE, "or")

distance_to(a, that) ==
    IF 0 < that[1] - a[1]
    THEN tuple_foldl(tuple_transform2(a, that, "distance_to"), DiffMax, "min_")
    ELSE tuple_foldl(tuple_transform2(a, that, "distance_to"), DiffMin, "max_")

\* every component iterator can be dereferenced
Dereferenceable(its, rngs) ==
    \A i \in DOMAIN its : 0 <= its[i] /\ its[i] < Len(rngs[i])

\* every component iterator is inside [begin, end] of its range
InRange(its, rngs) ==
    \A i \in DOMAIN its : 0 <= its[i] /\ its[i] <= Len(rngs[i])

\* the tuples dereference() can return: *it of an iterator that is not
\* dereferenceable is undefined and may read anything
DerefOutcomes(its, rngs) ==
    IF Dereferenceable(its, rngs)
    THEN {[i \in DOMAIN its |-> rngs[i][its[i] + 1]]}
    ELSE LET Any == {Junk} \cup UNION {{rngs[i][k] : k \in DOMAIN rngs[i]} :
                                        i \in DOMAIN rngs}
         IN  {t \in [DOMAIN its -> Any] :
                \A i \in DOMAIN its :
                    (0 <= its[i] /\ its[i] < Len(rngs[i]))
                        => t[i] = rngs[i][its[i] + 1]}

AdvIdle ==
    /\ cat = "input"
    /\ it = 0
    /\ n = 0
    /\ bound = 0
    /\ it0 = 0
    /\ ret = 0
    /\ advAsserted = FALSE
    /\ advUb = FALSE
    /\ advPc = "off"

\* zip_range_view(InputRanges &&...rngs)
ZipInit ==
    /\ \E lens \in Lengths :
           rngs_ = [i \in DOMAIN lens |-> MkRange(i, lens[i])]
    /\ its_ = << >>
    /\ origin = "none"
    /\ pc = "view"
    /\ op = "none"
    /\ steps = 0
    /\ out = << >>
    /\ cur = << >>
    /\ dist = 0
    /\ distTo = "none"
    /\ asserted = FALSE
    /\ ub = FALSE

\* begin(): start of  for(it = begin(); it != end(); ++it) use(*it)  ("test")
\* or an iterator the caller drives freely ("free")
begin ==
    /\ pc = "view"
    /\ \E mode \in {"test", "free"} : pc' = mode
    /\ its_' = BeginIts(rngs_)
    /\ origin' = "begin"
    /\ UNCHANGED <<rngs_, op, steps, out, cur, dist, distTo, asserted, ub>>
    /\ UNCHANGED advVars

\* end(), driven freely by the caller
end ==
    /\ pc = "view"
    /\ pc' = "free"
    /\ its_' = EndIts(rngs_)
    /\ origin' = "end"
    /\ UNCHANGED <<rngs_, op, steps, out, cur, dist, distTo, asserted, ub>>
    /\ UNCHANGED advVars

\* the loop condition  it != end()
loop_test ==
    /\ pc = "test"
    /\ op' = "equal"
    /\ pc' = IF equal(its_, EndIts(rngs_)) THEN "done" ELSE "body"
    /\ cur' = << >> /\ dist' = 0 /\ distTo' = "none"
    /\ UNCHANGED <<rngs_, its_, origin, steps, out, asserted, ub, advVars>>

\* the RANGES_ASSERT of increment()
increment_assert_begin(its, rngs) == ~equal(its, BeginIts(rngs))
increment_assert(its, rngs) == ~equal(its, EndIts(rngs))

\* tuple_for_each(its_, detail::inc)
increment_all_but_last(its) ==
    [i \in DOMAIN its |-> IF i = Len(its) /\ i > 1 THEN its[i] ELSE inc(its[i])]
increment_each(its) == tuple_transform(its, "inc")

increment ==
    /\ pc \in {"inc", "free"}
    /\ op' = "increment"
    /\ IF increment_assert(its_, rngs_)
       THEN /\ its_' = increment_each(its_)
            /\ steps' = steps + 1
            /\ ub' = (ub \/ ~InRange(its_', rngs_))
            /\ pc' = IF ~InRange(its_', rngs_) THEN "aborted"
                     ELSE IF pc = "inc" THEN "test" ELSE "free"
            /\ UNCHANGED asserted
       ELSE /\ asserted' = TRUE
            /\ pc' = "aborted"
            /\ UNCHANGED <<its_, steps, ub>>
    /\ cur' = << >> /\ dist' = 0 /\ distTo' = "none"
    /\ UNCHANGED <<rngs_, origin, out, advVars>>

decrement ==
    /\ pc = "free"
    /\ op' = "decrement"
    /\ IF ~equal(its_, BeginIts(rngs_))
       THEN /\ its_' = tuple_transform(its_, "dec")
            /\ steps' = steps - 1
            /\ ub' = (ub \/ ~InRange(its_', rngs_))
            /\ pc' = IF ~InRange(its_', rngs_) THEN "aborted" ELSE "free"
            /\ UNCHANGED asserted
       ELSE /\ asserted' = TRUE
            /\ pc' = "aborted"
            /\ UNCHANGED <<its_, steps, ub>>
    /\ cur' = << >> /\ dist' = 0 /\ distTo' = "none"
    /\ UNCHANGED <<rngs_, origin, out, advVars>>

\* it += k (advance): every component moves by k, unclipped
advance ==
    /\ pc = "free"
    /\ op' = "advance"
    /\ \E k \in (0 - MaxLen) .. MaxLen :
           /\ its_' = [i \in DOMAIN its_ |-> advance_(its_[i], k)]
           /\ steps' = steps + k
    /\ ub' = (ub \/ ~InRange(its_', rngs_))
    /\ pc' = IF ~InRange(its_', rngs_) THEN "aborted" ELSE "free"
    /\ cur' = << >> /\ dist' = 0 /\ distTo' = "none"
    /\ UNCHANGED <<rngs_, origin, out, asserted, advVars>>

\* *it: in the loop body, or by a caller that has checked it != end()
dereference ==
    /\ pc \in {"body", "free"}
    /\ pc = "free" => ~equal(its_, EndIts(rngs_))
    /\ op' = "dereference"
    /\ \E t \in DerefOutcomes(its_, rngs_) :
           /\ cur' = t
           /\ out' = IF pc = "body" THEN Append(out, t) ELSE out
    /\ ub' = (ub \/ ~Dereferenceable(its_, rngs_))
    /\ pc' = IF pc = "body" THEN "inc" ELSE "free"
    /\ dist' = 0 /\ distTo' = "none"
    /\ UNCHANGED <<rngs_, its_, origin, steps, asserted, advVars>>

\* that - it  for that = begin() or end()
distance ==
    /\ pc = "free"
    /\ op' = "distance_to"
    /\ \E that \in {"begin", "end"} :
           /\ distTo' = that
           /\ dist' = distance_to(its_, IF that = "begin" THEN BeginIts(rngs_)
                                                          ELSE EndIts(rngs_))
    /\ cur' = << >>
    /\ UNCHANGED <<rngs_, its_, origin, pc, steps, out, asserted, ub, advVars>>

InitZip == AdvIdle /\ ZipInit
NextZip ==
    \/ begin
    \/ end
    \/ loop_test
    \/ increment
    \/ decrement
    \/ advance
    \/ dereference
    \/ distance
SpecZip == InitZip /\ [][NextZip]_vars

\* ------------------------------------------------------------------------
\* Properties of the zip iterator
\* ------------------------------------------------------------------------
\* caller positions of the guarded traversal loop
LoopPcs == {"test", "body", "inc", "done"}

\* length of the shortest zipped range
MinLen == tuple_foldl(tuple_transform(rngs_, "end"), DiffMax, "min_")

\* the tuple of the elements with (1-based) index k of every range
TupleAt(k) == [i \in DOMAIN rngs_ |-> rngs_[i][k]]

\* C4: a traversal from begin() that increments while it != end() performs
\* exactly min(L_1..L_N) increments: the iterator compares equal to end()
\* after min(L_i) increments, never earlier and never later.
C4_ShortestWins ==
    /\ pc \in LoopPcs => steps <= MinLen
    /\ pc \in LoopPcs => (equal(its_, EndIts(rngs_)) <=> steps = MinLen)
    /\ pc \in {"body", "inc"} => steps < MinLen
    /\ pc = "done" => steps = MinLen

\* ranges of lengths 3 and 5 traversed to the end: 3 increments
C4_Witness ==
    /\ pc = "done" /\ Len(rngs_) = 2 /\ steps = 3
    /\ Len(rngs_[1]) = 3 /\ Len(rngs_[2]) = 5

\* C5: the k-th dereference of the traversal yields (s_1[k], ..., s_N[k]),
\* in increasing k, nothing skipped, repeated or mispaired.
C5_ElementWise ==
    /\ \A k \in DOMAIN out :
           /\ k <= MinLen
           /\ out[k] = TupleAt(k)
    /\ pc \in {"test", "done"} => Len(out) = steps
    /\ pc = "inc" => Len(out) = steps + 1
    /\ pc = "done" => Len(out) = MinLen

\* two ranges of length 3 traversed to the end
C5_Witness ==
    /\ pc = "done" /\ Len(rngs_) = 2 /\ Len(out) = 3
    /\ Len(rngs_[1]) = 3 /\ Len(rngs_[2]) = 3
    /\ out = <<TupleAt(1), TupleAt(2), TupleAt(3)>>
    /\ out[2] = <<Elem(1, 2), Elem(2, 2)>>

\* C6: for a position k increments from begin(), distance_to(end()) is the
\* number of increments still needed to compare equal to end(),
\* min(L_i) - k; it is 0 exactly when the position equals end().
C6_DistanceToEnd ==
    (pc = "free" /\ origin = "begin" /\ op = "distance_to" /\ distTo = "end") =>
        /\ dist = MinLen - steps
        /\ (dist = 0 <=> equal(its_, EndIts(rngs_)))

\* C7: for two ranges of equal length L, distance begin() -> end() is L and
\* distance end() -> begin() is -L.
C7_DistanceSymmetry ==
    (/\ pc = "free" /\ op = "distance_to"
     /\ Len(rngs_) = 2 /\ Len(rngs_[1]) = Len(rngs_[2])) =>
        /\ (its_ = BeginIts(rngs_) /\ distTo = "end") =>
               /\ dist = Len(rngs_[1])
               /\ dist = 0 - distance_to(EndIts(rngs_), BeginIts(rngs_))
        /\ (its_ = EndIts(rngs_) /\ distTo = "begin") =>
               /\ dist = 0 - Len(rngs_[1])
               /\ dist = 0 - distance_to(BeginIts(rngs_), EndIts(rngs_))

\* distance from end() back to begin() of two ranges of length 2
C7_Witness ==
    /\ pc = "free" /\ op = "distance_to" /\ distTo = "begin"
    /\ Len(rngs_) = 2 /\ Len(rngs_[1]) = 2 /\ Len(rngs_[2]) = 2
    /\ its_ = EndIts(rngs_) /\ dist = 0 - 2

\* C9: every position reached from begin() or end() by asserted-safe
\* increments and decrements has all components at one common offset, so a
\* dereference yields the elements of one index; end() decremented j times
\* yields the tuple of begin() incremented min(L_i) - j times.
C9_Lockstep ==
    (pc = "free" /\ op = "dereference" /\ ~ub) =>
        /\ \A i, j \in DOMAIN its_ : its_[i] = its_[j]
        /\ cur = TupleAt((IF origin = "begin" THEN steps
                                              ELSE MinLen + steps) + 1)

\* C10: in the guarded traversal the increment assertion never fires, no
\* component leaves its range and only dereferenceable positions are
\* dereferenced; an increment of a position equal to end() trips the
\* assertion and moves nothing.
C10_Step ==
    /\ pc' \in LoopPcs =>
           (~asserted' /\ ~ub' /\ InRange(its_', rngs_'))
    /\ pc' = "body" => Dereferenceable(its_', rngs_')
    /\ pc = "inc" => (pc' = "test" /\ ~asserted')
    /\ (pc \in {"inc", "free"} /\ op' = "increment"
            /\ equal(its_, EndIts(rngs_))) =>
           (asserted' /\ its_' = its_)

C10_GuardedTraversal == [][C10_Step]_vars

\* an increment of a position that reached end() tripped the assertion
C10_Witness ==
    /\ asserted /\ op = "increment" /\ origin = "begin" /\ steps = 2
    /\ Len(rngs_) = 2 /\ Len(rngs_[1]) = 3 /\ Len(rngs_[2]) = 2
    /\ its_ = <<2, 2>>

====
